---- MODULE Spec2Model ----
(***************************************************************************)
(* A model of the WebSocket relay of main.py: llm_proxy_endpoint, the      *)
(* per-connection message loop, and parse_hume_message, the extraction of  *)
(* the latest utterance.                                                   *)
(*                                                                         *)
(* JSON values are tagged records; a text        (a WebSocket frame, an    *)
(* HTTP body) is a sequence of lexical tokens [k, v].  json_dumps writes a *)
(* value as tokens and json_loads parses tokens back, failing on a         *)
(* sequence that is no JSON document.  A Python call either returns        *)
(* (Return) or raises (Raise).                                             *)
(***************************************************************************)
EXTENDS Integers, Sequences, FiniteSets, TLC

----------------------------------------------------------------------------
(* Python results *)

Return(v) == [ok |-> TRUE, val |-> v]

Raise(e) == [ok |-> FALSE, exc |-> e]

----------------------------------------------------------------------------
(* JSON values *)

JStr(s) == [t |-> "str", s |-> s]

JNum(n) == [t |-> "num", n |-> n]

JNull == [t |-> "null"]

JArr(a) == [t |-> "arr", a |-> a]

\* a dict: a sequence of [k, v] pairs in insertion order, keys distinct
JObj(o) == [t |-> "obj", o |-> o]

Pair(k, v) == [k |-> k, v |-> v]

HasKey(o, key) == \E i \in 1..Len(o) : o[i].k = key

Lookup(o, key) == o[CHOOSE i \in 1..Len(o) : o[i].k = key].v

\* d[key] = v on a dict: a present key keeps its place and takes the value
SetKey(o, key, v) ==
    IF HasKey(o, key)
    THEN [i \in 1..Len(o) |-> IF o[i].k = key THEN Pair(key, v) ELSE o[i]]
    ELSE Append(o, Pair(key, v))

\* x[key] for a str key
GetItem(x, key) ==
    IF x.t = "obj"
    THEN IF HasKey(x.o, key) THEN Return(Lookup(x.o, key)) ELSE Raise("KeyError")
    ELSE Raise("TypeError")

\* x[0] where the code has x[-1]
GetLast_First(x) ==
    CASE x.t = "arr" -> IF Len(x.a) = 0 THEN Raise("IndexError") ELSE Return(x.a[1])
      [] x.t = "str" -> IF x.s = "" THEN Raise("IndexError") ELSE Return(x)
      [] x.t = "obj" -> Raise("KeyError")
      [] OTHER -> Raise("TypeError")

\* x[-1]; the strings of the model stand for themselves as their last character
GetLast(x) ==
    CASE x.t = "arr" -> IF Len(x.a) = 0 THEN Raise("IndexError")
                                      ELSE Return(x.a[Len(x.a)])
      [] x.t = "str" -> IF x.s = "" THEN Raise("IndexError") ELSE Return(x)
      [] x.t = "obj" -> Raise("KeyError")
      [] OTHER -> Raise("TypeError")

----------------------------------------------------------------------------
(* JSON texts *)

P(c) == [k |-> "p", v |-> c]

TStr(s) == [k |-> "str", v |-> s]

TNum(n) == [k |-> "num", v |-> n]

TNull == [k |-> "null", v |-> "null"]

RECURSIVE json_dumps(_)
RECURSIVE DumpItems(_, _)
RECURSIVE DumpPairs(_, _)

DumpItems(a, i) ==
    IF i > Len(a) THEN <<>>
    ELSE (IF i > 1 THEN <<P(",")>> ELSE <<>>) \o json_dumps(a[i]) \o DumpItems(a, i + 1)

DumpPairs(o, i) ==
    IF i > Len(o) THEN <<>>
    ELSE (IF i > 1 THEN <<P(",")>> ELSE <<>>)
         \o <<TStr(o[i].k), P(":")>> \o json_dumps(o[i].v) \o DumpPairs(o, i + 1)

json_dumps(x) ==
    CASE x.t = "str" -> <<TStr(x.s)>>
      [] x.t = "num" -> <<TNum(x.n)>>
      [] x.t = "null" -> <<TNull>>
      [] x.t = "arr" -> <<P("[")>> \o DumpItems(x.a, 1) \o <<P("]")>>
      [] x.t = "obj" -> <<P("{")>> \o DumpPairs(x.o, 1) \o <<P("}")>>

NoParse == [ok |-> FALSE, val |-> JNull, next |-> 0]

Parsed(v, n) == [ok |-> TRUE, val |-> v, next |-> n]

Is(toks, i, c) == i <= Len(toks) /\ toks[i] = P(c)

RECURSIVE ParseValue(_, _)
RECURSIVE ParseItems(_, _, _)
RECURSIVE ParsePairs(_, _, _)

\* the items of an array from toks[i] on, acc the items read so far
ParseItems(toks, i, acc) ==
    LET r == ParseValue(toks, i) IN
    IF ~r.ok THEN NoParse
    ELSE IF Is(toks, r.next, "]") THEN Parsed(JArr(Append(acc, r.val)), r.next + 1)
    ELSE IF Is(toks, r.next, ",") THEN ParseItems(toks, r.next + 1, Append(acc, r.val))
    ELSE NoParse

\* the members of an object from toks[i] on; a repeated key keeps the last value
ParsePairs(toks, i, acc) ==
    IF ~(i + 1 <= Len(toks) /\ toks[i].k = "str" /\ toks[i + 1] = P(":")) THEN NoParse
    ELSE LET r == ParseValue(toks, i + 2) IN
         IF ~r.ok THEN NoParse
         ELSE LET o == SetKey(acc, toks[i].v, r.val) IN
              IF Is(toks, r.next, "}") THEN Parsed(JObj(o), r.next + 1)
              ELSE IF Is(toks, r.next, ",") THEN ParsePairs(toks, r.next + 1, o)
              ELSE NoParse

ParseValue(toks, i) ==
    IF i > Len(toks) THEN NoParse
    ELSE CASE toks[i].k = "str" -> Parsed(JStr(toks[i].v), i + 1)
           [] toks[i].k = "num" -> Parsed(JNum(toks[i].v), i + 1)
           [] toks[i].k = "null" -> Parsed(JNull, i + 1)
           [] toks[i] = P("[") -> IF Is(toks, i + 1, "]") THEN Parsed(JArr(<<>>), i + 2)
                                  ELSE ParseItems(toks, i + 1, <<>>)
           [] toks[i] = P("{") -> IF Is(toks, i + 1, "}") THEN Parsed(JObj(<<>>), i + 2)
                                  ELSE ParsePairs(toks, i + 1, <<>>)
           [] OTHER -> NoParse

\* json.loads: the whole text must be one document
json_loads(text) ==
    LET r == ParseValue(text, 1) IN
    IF r.ok /\ r.next = Len(text) + 1 THEN Return(r.val) ELSE Raise("JSONDecodeError")

----------------------------------------------------------------------------
(* parse_hume_message *)

\* the first entry where the code takes the last
parse_hume_message_First(messages_payload) ==
    LET messages == GetItem(messages_payload, "messages") IN
    IF ~messages.ok THEN messages
    ELSE LET first == GetLast_First(messages.val) IN
         IF ~first.ok THEN first
         ELSE LET message == GetItem(first.val, "message") IN
              IF ~message.ok THEN message
              ELSE GetItem(message.val, "content")

\* an empty utterance for an empty sequence where the code raises
parse_hume_message_Default(messages_payload) ==
    LET messages == GetItem(messages_payload, "messages") IN
    IF ~messages.ok THEN messages
    ELSE IF messages.val.t = "arr" /\ Len(messages.val.a) = 0 THEN Return(JStr(""))
    ELSE LET last == GetLast(messages.val) IN
         IF ~last.ok THEN last
         ELSE LET message == GetItem(last.val, "message") IN
              IF ~message.ok THEN message
              ELSE GetItem(message.val, "content")

parse_hume_message(messages_payload) ==
    LET messages == GetItem(messages_payload, "messages") IN
    IF ~messages.ok THEN messages
    ELSE LET last == GetLast(messages.val) IN
         IF ~last.ok THEN last
         ELSE LET message == GetItem(last.val, "message") IN
              IF ~message.ok THEN message
              ELSE GetItem(message.val, "content")

----------------------------------------------------------------------------
(* Bounds and inputs *)

\* frames a client sends on one connection
MaxFrames == 2

\* the bounded wait of the generation request, httpx.AsyncClient(timeout=30.0)
timeout == 30

Conns == {"c1", "c2"}

Urls == {"http://llm-a", "http://llm-b"}

Entry(content) == JObj(<<Pair("message", JObj(<<Pair("role", JStr("user")), Pair("content", content)>>))>>)

NoContent == JObj(<<Pair("message", JObj(<<Pair("role", JStr("user"))>>))>>)

Event(entries) == JObj(<<Pair("messages", JArr(entries))>>)

Hello == json_dumps(Event(<<Entry(JStr("Hello"))>>))

HiBye == json_dumps(Event(<<Entry(JStr("Hi")), Entry(JStr("Bye"))>>))

\* cut short: no JSON document
Truncated == SubSeq(Hello, 1, Len(Hello) - 1)

NoMessages == json_dumps(JObj(<<Pair("type", JStr("ping"))>>))

EmptyMessages == json_dumps(Event(<<>>))

LastNoContent == json_dumps(Event(<<Entry(JStr("Hi")), NoContent>>))

NotAnObject == json_dumps(JArr(<<>>))

WellFormed == {Hello, HiBye}

Malformed == {Truncated, NoMessages, EmptyMessages, LastNoContent, NotAnObject}

Inbound == WellFormed \cup Malformed

TextBody(text) == json_dumps(JObj(<<Pair("text", text), Pair("model", JStr("m"))>>))

NoTextBody == json_dumps(JObj(<<Pair("detail", JStr("Not Found"))>>))

HtmlBody == <<P("<"), TStr("html"), P(">")>>

Bodies == {TextBody(JStr("Hi there")), TextBody(JNum("42")), NoTextBody, HtmlBody,
           json_dumps(JArr(<<>>))}

Statuses == {200, 500}

\* time the generation endpoint takes to answer
Delays == {0, timeout + 1}

NetworkErrors == {"ConnectError"}

----------------------------------------------------------------------------
(* The connections *)

VARIABLES
    environ,    \* os.environ["LLM_URL"]
    pc,         \* where each connection's task is: idle, receive, post, send, done
    llm_url,    \* the handler's local llm_url
    inq,        \* frames the client has sent and the handler has not received
    closed,     \* the peer has closed the connection
    data,       \* the handler's local data: the frame of the current cycle
    message,    \* the handler's local message
    pending,    \* generation requests issued and neither answered nor failed
    responses,  \* the frames of the current cycle still to send
    exc,        \* the exception that ended the task
    reply,      \* what the current cycle's generation request ended with
    asked,      \* the generation requests issued in the current cycle
    sent,       \* the frames sent in the current cycle
    outbox,     \* the cycle and type of every frame sent, in order
    nframes,    \* frames the client has sent
    nread,      \* frames the handler has received
    nreq,       \* generation requests the handler has issued
    cycles,     \* the cycles served: frame, request body, reply body, frames sent
    payload,    \* the argument of a call of parse_hume_message on its own
    result      \* what that call ended with

vars == <<environ, pc, llm_url, inq, closed, data, message, pending, responses, exc,
          reply, asked, sent, outbox, nframes, nread, nreq, cycles, payload, result>>

\* the call of parse_hume_message on its own
call == <<payload, result>>

None == JNull

NotCalled == Raise("")

NoReply == [status |-> 0, body |-> <<>>, err |-> "none", delay |-> 0]

Response(status, body, delay) == [status |-> status, body |-> body, err |-> "", delay |-> delay]

Failure(e, delay) == [status |-> 0, body |-> <<>>, err |-> e, delay |-> delay]

Idle ==
    /\ environ \in Urls
    /\ pc = [c \in Conns |-> "idle"]
    /\ llm_url = [c \in Conns |-> ""]
    /\ inq = [c \in Conns |-> <<>>]
    /\ closed = [c \in Conns |-> FALSE]
    /\ data = [c \in Conns |-> <<>>]
    /\ message = [c \in Conns |-> None]
    /\ pending = [c \in Conns |-> <<>>]
    /\ responses = [c \in Conns |-> <<>>]
    /\ exc = [c \in Conns |-> ""]
    /\ reply = [c \in Conns |-> NoReply]
    /\ asked = [c \in Conns |-> <<>>]
    /\ sent = [c \in Conns |-> <<>>]
    /\ outbox = [c \in Conns |-> <<>>]
    /\ nframes = [c \in Conns |-> 0]
    /\ nread = [c \in Conns |-> 0]
    /\ nreq = [c \in Conns |-> 0]
    /\ cycles = {}

\* the process has started and no client has connected
Init ==
    /\ Idle
    /\ payload = None
    /\ result = NotCalled

\* something in the process sets LLM_URL
SetEnv(u) ==
    /\ u # environ
    /\ environ' = u
    /\ UNCHANGED <<pc, llm_url, inq, closed, data, message, pending, responses, exc,
                   reply, asked, sent, outbox, nframes, nread, nreq>>
    /\ UNCHANGED call
    /\ UNCHANGED cycles

\* a client connects: websocket.accept(), llm_url = os.getenv("LLM_URL")
Accept(c) ==
    /\ pc[c] = "idle"
    /\ pc' = [pc EXCEPT ![c] = "receive"]
    /\ llm_url' = [llm_url EXCEPT ![c] = environ]
    /\ UNCHANGED <<environ, inq, closed, data, message, pending, responses, exc,
                   reply, asked, sent, outbox, nframes, nread, nreq>>
    /\ UNCHANGED call
    /\ UNCHANGED cycles

\* the client sends a text frame
ClientSend(c, text) ==
    /\ pc[c] \notin {"idle", "done"}
    /\ ~closed[c]
    /\ nframes[c] < MaxFrames
    /\ inq' = [inq EXCEPT ![c] = Append(@, text)]
    /\ nframes' = [nframes EXCEPT ![c] = @ + 1]
    /\ UNCHANGED <<environ, pc, llm_url, closed, data, message, pending, responses, exc,
                   reply, asked, sent, outbox, nread, nreq>>
    /\ UNCHANGED call
    /\ UNCHANGED cycles

\* the client closes the connection
ClientClose(c) ==
    /\ pc[c] \notin {"idle", "done"}
    /\ ~closed[c]
    /\ closed' = [closed EXCEPT ![c] = TRUE]
    /\ UNCHANGED <<environ, pc, llm_url, inq, data, message, pending, responses, exc,
                   reply, asked, sent, outbox, nframes, nread, nreq>>
    /\ UNCHANGED call
    /\ UNCHANGED cycles

\* the exception ends the process, and with it every connection's task
Propagate_All(c, e) ==
    /\ pc' = [d \in Conns |-> "done"]
    /\ exc' = [exc EXCEPT ![c] = e]

\* the exception is caught and the loop goes on
Propagate_Continue(c, e) ==
    /\ pc' = [pc EXCEPT ![c] = "receive"]
    /\ exc' = [exc EXCEPT ![c] = e]

\* an exception leaves the handler: the task ends
Propagate(c, e) ==
    /\ pc' = [pc EXCEPT ![c] = "done"]
    /\ exc' = [exc EXCEPT ![c] = e]

\* the body httpx sends for json=payload
RequestBody(json) == json_dumps(json)

Request(url, question) ==
    [url |-> url, body |-> RequestBody(JObj(<<Pair("question", question)>>))]

\* os.getenv("LLM_URL") at every request
Post_Getenv(c, question) ==
    LET issued == <<Request(environ, question)>> IN
    /\ pending' = [pending EXCEPT ![c] = @ \o issued]
    /\ asked' = [asked EXCEPT ![c] = issued]
    /\ nreq' = [nreq EXCEPT ![c] = @ + Len(issued)]

\* the utterance of the cycle before goes along with the question
Post_WithHistory(c, question) ==
    LET issued == <<Request(llm_url[c],
                            IF nread[c] > 0 THEN JArr(<<message[c], question>>)
                                            ELSE question)>> IN
    /\ pending' = [pending EXCEPT ![c] = @ \o issued]
    /\ asked' = [asked EXCEPT ![c] = issued]
    /\ nreq' = [nreq EXCEPT ![c] = @ + Len(issued)]

\* the request is issued a second time while the first is outstanding
Post_Twice(c, question) ==
    LET issued == <<Request(llm_url[c], question), Request(llm_url[c], question)>> IN
    /\ pending' = [pending EXCEPT ![c] = @ \o issued]
    /\ asked' = [asked EXCEPT ![c] = issued]
    /\ nreq' = [nreq EXCEPT ![c] = @ + Len(issued)]

\* client.post(llm_url, json={"question": message}) is issued, once
Post(c, question) ==
    LET issued == <<Request(llm_url[c], question)>> IN
    /\ pending' = [pending EXCEPT ![c] = @ \o issued]
    /\ asked' = [asked EXCEPT ![c] = issued]
    /\ nreq' = [nreq EXCEPT ![c] = @ + Len(issued)]

\* receive_text() raises: the peer has closed and no frame is left
Disconnect(c) ==
    /\ pc[c] = "receive"
    /\ inq[c] = <<>>
    /\ closed[c]
    /\ Propagate(c, "WebSocketDisconnect")
    /\ UNCHANGED <<environ, llm_url, inq, closed, data, message, pending, responses,
                   reply, asked, sent, outbox, nframes, nread, nreq>>
    /\ UNCHANGED call
    /\ UNCHANGED cycles

\* receive_text() returns the next frame; json.loads, parse_hume_message and the
\* start of the generation request follow without suspension
Receive(c) ==
    /\ pc[c] = "receive"
    /\ inq[c] # <<>>
    /\ inq' = [inq EXCEPT ![c] = Tail(@)]
    /\ data' = [data EXCEPT ![c] = Head(inq[c])]
    /\ nread' = [nread EXCEPT ![c] = @ + 1]
    /\ reply' = [reply EXCEPT ![c] = NoReply]
    /\ sent' = [sent EXCEPT ![c] = <<>>]
    /\ LET hume_socket_message == json_loads(Head(inq[c]))
           parsed == IF hume_socket_message.ok
                     THEN parse_hume_message(hume_socket_message.val)
                     ELSE hume_socket_message
       IN IF parsed.ok
          THEN /\ message' = [message EXCEPT ![c] = parsed.val]
               /\ Post(c, parsed.val)
               /\ pc' = [pc EXCEPT ![c] = "post"]
               /\ UNCHANGED exc
          ELSE /\ Propagate(c, parsed.exc)
               /\ asked' = [asked EXCEPT ![c] = <<>>]
               /\ UNCHANGED <<message, pending, nreq>>
    /\ UNCHANGED <<environ, llm_url, closed, responses, outbox, nframes>>
    /\ UNCHANGED call
    /\ UNCHANGED cycles

\* no bound on the wait
Outcome_NoTimeout(delay, status, body, err) ==
    IF err # "" THEN Failure(err, 0) ELSE Response(status, body, delay)

\* what client.post ends with: the endpoint's response, or an exception when the
\* network fails or the endpoint takes longer than the timeout
Outcome(delay, status, body, err) ==
    IF err # "" THEN Failure(err, 0)
    ELSE IF delay > timeout THEN Failure("ReadTimeout", delay)
    ELSE Response(status, body, delay)

\* response.raise_for_status() before the body is read
ReplyText_RaiseForStatus(response) ==
    IF response.status >= 400 THEN Raise("HTTPStatusError")
    ELSE LET llm_response == json_loads(response.body) IN
         IF ~llm_response.ok THEN llm_response ELSE GetItem(llm_response.val, "text")

\* llm_response.get('text', '') where the code subscripts
ReplyText_Get(response) ==
    LET llm_response == json_loads(response.body) IN
    IF ~llm_response.ok THEN llm_response
    ELSE IF llm_response.val.t = "obj" /\ ~HasKey(llm_response.val.o, "text")
    THEN Return(JStr(""))
    ELSE GetItem(llm_response.val, "text")

\* response.json() and llm_response['text']
ReplyText(response) ==
    LET llm_response == json_loads(response.body) IN
    IF ~llm_response.ok THEN llm_response ELSE GetItem(llm_response.val, "text")

\* str(llm_response['text']) where the code passes the value on
Responses_Str(text) ==
    <<json_dumps(JObj(<<Pair("type", JStr("assistant_input")),
                        Pair("text", CASE text.t = "str" -> text
                                       [] text.t = "num" -> JStr(text.n)
                                       [] OTHER -> JStr("None"))>>)),
      json_dumps(JObj(<<Pair("type", JStr("assistant_end"))>>))>>

\* the end of the turn before its text
Responses_EndFirst(text) ==
    <<json_dumps(JObj(<<Pair("type", JStr("assistant_end"))>>)),
      json_dumps(JObj(<<Pair("type", JStr("assistant_input")), Pair("text", text)>>))>>

\* the list responses of one cycle
Responses(text) ==
    <<json_dumps(JObj(<<Pair("type", JStr("assistant_input")), Pair("text", text)>>)),
      json_dumps(JObj(<<Pair("type", JStr("assistant_end"))>>))>>

\* client.post ends; on a response the reply is read and the frames are built
PostReturn(c, outcome) ==
    /\ pc[c] = "post"
    /\ pending[c] # <<>>
    /\ pending' = [pending EXCEPT ![c] = Tail(@)]
    /\ reply' = [reply EXCEPT ![c] = outcome]
    /\ IF outcome.err # ""
       THEN /\ Propagate(c, outcome.err)
            /\ UNCHANGED responses
       ELSE LET text == ReplyText(outcome) IN
            IF text.ok
            THEN /\ responses' = [responses EXCEPT ![c] = Responses(text.val)]
                 /\ pc' = [pc EXCEPT ![c] = "send"]
                 /\ UNCHANGED exc
            ELSE /\ Propagate(c, text.exc)
                 /\ UNCHANGED responses
    /\ UNCHANGED <<environ, llm_url, inq, closed, data, message, asked, sent, outbox,
                   nframes, nread, nreq>>
    /\ UNCHANGED call
    /\ UNCHANGED cycles

\* the type field of an outbound frame
FrameType(frame) == GetItem(json_loads(frame).val, "type").val.s

\* the handler goes on waiting on the connection it has written the last frame to
AfterSend_Wait(rest) == "send"

\* the handler returns after the cycle: no while True
AfterSend_Return(rest) == IF rest = <<>> THEN "done" ELSE "send"

\* back to receive_text() after the first send
AfterSend_Early(rest) == "receive"

\* where the task goes after a send: the next frame of the list, or the next cycle
AfterSend(rest) == IF rest = <<>> THEN "receive" ELSE "send"

\* a cycle that has been served to its end
Cycle(frame, request, response, frames) ==
    [data |-> frame, question |-> request.body, reply |-> response.body, frames |-> frames]

\* websocket.send_text(response) returns
SendText(c) ==
    /\ pc[c] = "send"
    /\ responses[c] # <<>>
    /\ sent' = [sent EXCEPT ![c] = Append(@, Head(responses[c]))]
    /\ outbox' = [outbox EXCEPT ![c] =
                     Append(@, [n |-> nread[c], type |-> FrameType(Head(responses[c]))])]
    /\ responses' = [responses EXCEPT ![c] = Tail(@)]
    /\ pc' = [pc EXCEPT ![c] = AfterSend(Tail(responses[c]))]
    /\ cycles' = IF Tail(responses[c]) = <<>>
                 THEN cycles \cup {Cycle(data[c], asked[c][1], reply[c],
                                         Append(sent[c], Head(responses[c])))}
                 ELSE cycles
    /\ UNCHANGED <<environ, llm_url, inq, closed, data, message, pending, exc, reply,
                   asked, nframes, nread, nreq>>
    /\ UNCHANGED call

\* websocket.send_text(response) raises: the peer has closed
SendFails(c) ==
    /\ pc[c] = "send"
    /\ responses[c] # <<>>
    /\ closed[c]
    /\ Propagate(c, "WebSocketDisconnect")
    /\ UNCHANGED <<environ, llm_url, inq, closed, data, message, pending, responses,
                   reply, asked, sent, outbox, nframes, nread, nreq>>
    /\ UNCHANGED call
    /\ UNCHANGED cycles

Outcomes ==
    {Outcome(d, s, b, e) : d \in Delays, s \in Statuses, b \in Bodies, e \in NetworkErrors \cup {""}}

\* the peer of a connection
Client(c, frames) ==
    \/ \E text \in frames : ClientSend(c, text)
    \/ ClientClose(c)

\* the task of a connection
Task(c, outcomes) ==
    \/ Accept(c)
    \/ Disconnect(c)
    \/ Receive(c)
    \/ \E outcome \in outcomes : PostReturn(c, outcome)
    \/ SendText(c)
    \/ SendFails(c)

\* one client, every frame and every outcome of the generation request
NextOne ==
    \/ \E u \in Urls : SetEnv(u)
    \/ Client("c1", Inbound)
    \/ Task("c1", Outcomes)

SpecOne == Init /\ [][NextOne]_vars

\* frames the clients that share the process send in all
MaxShared == 2

\* the frames and outcomes of the clients that share the process
SharedInbound == {Hello, HiBye, EmptyMessages}

SharedOutcomes ==
    {Outcome(0, 200, TextBody(JStr("Hi there")), ""),
     Outcome(0, 200, TextBody(JNum("42")), ""),
     Outcome(timeout + 1, 200, TextBody(JStr("Hi there")), "")}

\* one client, in a process that leaves LLM_URL as it is
NextLive ==
    \/ Client("c1", SharedInbound)
    \/ Task("c1", SharedOutcomes)

\* the event loop resumes the task when what it awaits is there: client.post ends
\* with a response or an exception, and send_text returns or raises
SpecLive ==
    /\ Init
    /\ [][NextLive]_vars
    /\ WF_vars(\E outcome \in SharedOutcomes : PostReturn("c1", outcome))
    /\ WF_vars(SendText("c1"))

\* the clients send no more than MaxShared frames in all
Shared(c, text) ==
    nframes["c1"] + nframes["c2"] < MaxShared /\ ClientSend(c, text)

\* every client, in a process that leaves LLM_URL as it is
Next ==
    \E c \in Conns :
        \/ \E text \in SharedInbound : Shared(c, text)
        \/ ClientClose(c)
        \/ Task(c, SharedOutcomes)

Spec == Init /\ [][Next]_vars

\* every client, in a process where LLM_URL changes
NextEnv ==
    \/ \E u \in Urls : SetEnv(u)
    \/ \E c \in Conns :
          \/ \E text \in WellFormed : Shared(c, text)
          \/ ClientClose(c)
          \/ Task(c, {Outcome(0, 200, TextBody(JStr("Hi there")), "")})

SpecEnv == Init /\ [][NextEnv]_vars

----------------------------------------------------------------------------
(* parse_hume_message on its own *)

\* entries of a messages sequence
MaxEntries == 3

Contents == {JStr("Hi"), JStr("Bye")}

EntryKinds == {Entry(s) : s \in Contents} \cup {NoContent, JObj(<<Pair("role", JStr("user"))>>)}

Payloads ==
    {Event(e) : e \in UNION {[1..n -> EntryKinds] : n \in 0..MaxEntries}}
        \cup {JObj(<<>>), JArr(<<>>)}

InitParse ==
    /\ Idle
    /\ payload \in Payloads
    /\ result = NotCalled

Call ==
    /\ result = NotCalled
    /\ result' = parse_hume_message(payload)
    /\ UNCHANGED <<environ, pc, llm_url, inq, closed, data, message, pending, responses,
                   exc, reply, asked, sent, outbox, nframes, nread, nreq, cycles,
                   payload>>

NextParse == Call

SpecParse == InitParse /\ [][NextParse]_vars

----------------------------------------------------------------------------
(* Properties *)

\* a generation request ended with a response whose body is JSON with a text field
HasText(r) ==
    /\ r.err = ""
    /\ json_loads(r.body).ok
    /\ GetItem(json_loads(r.body).val, "text").ok

TextOf(r) == GetItem(json_loads(r.body).val, "text").val

InputFrame(text) == JObj(<<Pair("type", JStr("assistant_input")), Pair("text", text)>>)

EndFrame == JObj(<<Pair("type", JStr("assistant_end"))>>)

\* what a client reads in the frames
Decoded(frames) == [i \in 1..Len(frames) |-> json_loads(frames[i])]

Expected(r) == <<Return(InputFrame(TextOf(r))), Return(EndFrame)>>

IsPrefix(s, t) == Len(s) <= Len(t) /\ \A i \in 1..Len(s) : s[i] = t[i]

\* the frames sent before the current cycle: two for each earlier frame
EarlierComplete(c) == Len(outbox[c]) = 2 * (nread[c] - 1)

\* the frames of a reply with text: the two of them in order, all of them unless a
\* send fails on a connection the peer has closed
TwoFrames(c) ==
    /\ IsPrefix(Decoded(sent[c]), Expected(reply[c]))
    /\ pc[c] \in {"send", "receive", "done"}
    /\ pc[c] = "send" => Decoded(sent[c] \o responses[c]) = Expected(reply[c])
    /\ pc[c] = "receive" => Decoded(sent[c]) = Expected(reply[c])
    /\ pc[c] = "done" => closed[c] /\ exc[c] = "WebSocketDisconnect"

\* C1 as stated: once a reply with text has arrived and the cycle is over, the two
\* frames, assistant_input with the reply's text and then assistant_end, have been
\* sent for the inbound frame.
C1_ExactlyTwoFrames ==
    \A c \in Conns :
        (HasText(reply[c]) /\ pc[c] \in {"receive", "done"})
            => Decoded(sent[c]) = Expected(reply[c])

\* C1 amended: for an inbound frame that parses and whose reply has text, the frames
\* sent are assistant_input with the reply's text and then assistant_end and nothing
\* else; both are sent before the next frame is awaited, and the cycle ends with
\* fewer only when a send fails on a connection the peer has closed, which ends the
\* loop.
C1_TwoFramesUnlessSendFails ==
    \A c \in Conns : HasText(reply[c]) => TwoFrames(c)

\* scenario A: Hello, answered Hi there, both frames sent
C1_Witness ==
    /\ data["c1"] = Hello
    /\ HasText(reply["c1"]) /\ TextOf(reply["c1"]) = JStr("Hi there")
    /\ pc["c1"] = "receive"
    /\ Len(sent["c1"]) = 2

\* C2: frames are processed one at a time in arrival order: when frame n+1 has been
\* read, and while its generation request is outstanding, the 2n frames of the n
\* frames before it have been sent and none of its own; the frames sent are, in
\* order, the assistant_input and the assistant_end of cycle 1, of cycle 2, ...
C2_NoPipelining ==
    \A c \in Conns :
        /\ Len(outbox[c]) >= 2 * (nread[c] - 1)
        /\ Len(outbox[c]) <= 2 * nread[c]
        /\ pending[c] # <<>> => EarlierComplete(c)
        /\ nreq[c] <= nread[c]
        /\ \A i \in 1..Len(outbox[c]) :
              outbox[c][i] = [n |-> (i + 1) \div 2,
                              type |-> IF i % 2 = 1 THEN "assistant_input"
                                                    ELSE "assistant_end"]

\* the second frame's request is outstanding, the first frame's two frames are sent
C2_Witness ==
    /\ nread["c1"] = 2
    /\ pc["c1"] = "post"
    /\ Len(outbox["c1"]) = 2

\* C3: a generation request that fails with a network error or takes longer than
\* the timeout sends no frame for its inbound frame, is not issued again, and ends
\* the loop.
C3_FailedRequestEndsLoop ==
    \A c \in Conns :
        (reply[c].err \notin {"", "none"} \/ reply[c].delay > timeout)
            => /\ reply[c].err \in NetworkErrors \cup {"ReadTimeout"}
               /\ reply[c].delay > timeout => reply[c].err = "ReadTimeout"
               /\ pc[c] = "done"
               /\ exc[c] = reply[c].err
               /\ sent[c] = <<>>
               /\ responses[c] = <<>>
               /\ Len(asked[c]) = 1
               /\ pending[c] = <<>>
               /\ EarlierComplete(c)

\* scenario C: the second frame's request times out
C3_Witness ==
    /\ nread["c1"] = 2
    /\ reply["c1"].err = "ReadTimeout"
    /\ pc["c1"] = "done"

NonSuccess(r) == r.err = "" /\ r.status \notin 200..299

\* C4 as stated: a response with a non-success status sends no frame and ends the
\* loop, whatever its body.
C4_NonSuccessEndsLoop ==
    \A c \in Conns :
        NonSuccess(reply[c]) => pc[c] = "done" /\ sent[c] = <<>>

\* C4 amended: the status of the response is not looked at.  A non-success response
\* whose body is not JSON or has no text field sends no frame and ends the loop; one
\* whose body is JSON with a text field is relayed as a success response is: the two
\* frames carrying that text, and the loop goes on.
C4_NonSuccessHandledByBody ==
    \A c \in Conns :
        NonSuccess(reply[c])
            => IF HasText(reply[c])
               THEN TwoFrames(c)
               ELSE /\ pc[c] = "done"
                    /\ exc[c] \in {"JSONDecodeError", "KeyError", "TypeError"}
                    /\ sent[c] = <<>>
                    /\ responses[c] = <<>>

\* a 500 with a text field has been relayed
C4_Witness ==
    /\ NonSuccess(reply["c1"])
    /\ HasText(reply["c1"])
    /\ pc["c1"] = "receive"
    /\ Len(sent["c1"]) = 2

\* C5: a response whose body is JSON without a text field sends no frame, not even
\* assistant_end, and ends the loop.
C5_NoTextEndsLoop ==
    \A c \in Conns :
        (reply[c].err = "" /\ json_loads(reply[c].body).ok /\ ~HasText(reply[c]))
            => /\ pc[c] = "done"
               /\ exc[c] \in {"KeyError", "TypeError"}
               /\ sent[c] = <<>>
               /\ responses[c] = <<>>
               /\ EarlierComplete(c)

\* scenario D
C5_Witness ==
    /\ reply["c1"].err = "" /\ reply["c1"].body = NoTextBody
    /\ pc["c1"] = "done"
    /\ exc["c1"] = "KeyError"

\* a malformed frame is the one the handler has read last
MalformedRead(c) == nread[c] > 0 /\ data[c] \in Malformed

\* C6: a malformed inbound frame ends the loop: no request is issued and no frame is
\* sent for it, and no later frame of the connection is read.
C6_MalformedEndsLoop ==
    /\ [](\A c \in Conns :
            MalformedRead(c)
                => /\ pc[c] = "done"
                   /\ exc[c] \in {"JSONDecodeError", "KeyError", "IndexError", "TypeError"}
                   /\ asked[c] = <<>>
                   /\ pending[c] = <<>>
                   /\ sent[c] = <<>>
                   /\ EarlierComplete(c))
    /\ [][\A c \in Conns :
            MalformedRead(c)
                => /\ nread'[c] = nread[c]
                   /\ inq'[c] = inq[c]
                   /\ nreq'[c] = nreq[c]
                   /\ outbox'[c] = outbox[c]]_vars

\* the loop has ended on a malformed frame with another frame behind it
C6_Witness ==
    /\ MalformedRead("c1")
    /\ pc["c1"] = "done"
    /\ inq["c1"] # <<>>

\* the content of the last messages entry of the well-formed frames
Utterance(text) == IF text = Hello THEN JStr("Hello") ELSE JStr("Bye")

\* C7: a frame that is read and parses causes one generation request, whose body is
\* {"question": u} with u the content of the frame's last messages entry; every
\* frame read so far has caused one.
C7_OneRequestPerFrame ==
    \A c \in Conns :
        (nread[c] > 0 /\ data[c] \in WellFormed)
            => /\ Len(asked[c]) = 1
               /\ json_loads(asked[c][1].body)
                     = Return(JObj(<<Pair("question", Utterance(data[c]))>>))
               /\ asked[c][1].url = llm_url[c]
               /\ nreq[c] = nread[c]

\* the second frame has two entries and its request carries the last
C7_Witness ==
    /\ nread["c1"] = 2
    /\ data["c1"] = HiBye
    /\ pending["c1"] = asked["c1"]
    /\ Len(asked["c1"]) = 1

\* the messages sequence of a payload that has one
Entries(p) == Lookup(p.o, "messages").a

C9_EmptyMessagesRaises ==
    \A c \in Conns :
        (nread[c] > 0 /\ json_loads(data[c]) = Return(Event(<<>>)))
            => /\ parse_hume_message(json_loads(data[c]).val) = Raise("IndexError")
               /\ pc[c] = "done"
               /\ exc[c] = "IndexError"
               /\ asked[c] = <<>>
               /\ pending[c] = <<>>
               /\ sent[c] = <<>>

\* an empty sequence after a frame that was served
C9_Witness ==
    /\ nread["c1"] = 2
    /\ data["c1"] = EmptyMessages
    /\ exc["c1"] = "IndexError"
    /\ Len(outbox["c1"]) = 2

\* C10: a connection has at most one generation request outstanding, and only
\* while its task waits for the answer.
C10_OneOutstanding ==
    \A c \in Conns :
        /\ Len(pending[c]) <= 1
        /\ pending[c] # <<>> <=> pc[c] = "post"

\* a request is outstanding and the client has sent another frame already
C10_Witness ==
    /\ Len(pending["c1"]) = 1
    /\ inq["c1"] # <<>>
    /\ nframes["c1"] = MaxFrames

\* a step leaves connection c as it is
Untouched(c) ==
    /\ pc'[c] = pc[c] /\ exc'[c] = exc[c] /\ llm_url'[c] = llm_url[c]
    /\ inq'[c] = inq[c] /\ closed'[c] = closed[c] /\ nframes'[c] = nframes[c]
    /\ data'[c] = data[c] /\ message'[c] = message[c] /\ nread'[c] = nread[c]
    /\ pending'[c] = pending[c] /\ asked'[c] = asked[c] /\ nreq'[c] = nreq[c]
    /\ reply'[c] = reply[c] /\ responses'[c] = responses[c]
    /\ sent'[c] = sent[c] /\ outbox'[c] = outbox[c]

\* the request of the current cycle is made of the connection's own frame
OwnRequest(c) ==
    asked[c] # <<>>
        => /\ json_loads(data[c]).ok
           /\ asked[c] = <<Request(llm_url[c], parse_hume_message(json_loads(data[c]).val).val)>>

\* the frames of the current cycle are made of the connection's own reply
OwnFrames(c) ==
    sent[c] \o responses[c] # <<>>
        => /\ HasText(reply[c])
           /\ Decoded(sent[c] \o responses[c]) = Expected(reply[c])

\* C11: connections share nothing: the request and the frames of a connection are
\* made of its own inbound frame and of the reply to its own request, and a step of
\* one connection, its failure and its closure included, leaves every other
\* connection as it was.
C11_Isolation ==
    /\ [](\A c \in Conns : OwnRequest(c) /\ OwnFrames(c))
    /\ [][\A c, d \in Conns : (c # d /\ ~Untouched(c)) => Untouched(d)]_vars

\* c1 has ended on a timeout; c2, answered otherwise, has been served and waits
C11_Witness ==
    /\ pc["c1"] = "done" /\ exc["c1"] = "ReadTimeout"
    /\ pc["c2"] = "receive" /\ Len(sent["c2"]) = 2
    /\ data["c1"] # data["c2"]

\* C12: a frame served again gets the request it got before, and with the same reply
\* the same two frames, on whichever connection and after whichever cycles: of all
\* the cycles served, those of one frame have one question, and those of one frame
\* and one reply have the same frames.
C12_Replay ==
    \A x, y \in cycles :
        x.data = y.data
            => /\ x.question = y.question
               /\ x.reply = y.reply => x.frames = y.frames

\* c1 has served the same frame twice, with the same reply, and c2 has not served
C12_Witness ==
    /\ nread["c1"] = 2
    /\ pc["c1"] = "receive"
    /\ Len(outbox["c1"]) = 4
    /\ Cardinality(cycles) = 1

\* the assistant_input frames among the frames sent in the current cycle
InputFrames(c) ==
    {json_loads(sent[c][i]).val : i \in {j \in 1..Len(sent[c]) :
                                          FrameType(sent[c][j]) = "assistant_input"}}

\* a reply without text sends nothing
AbsentTextFails(c) ==
    (reply[c].err = "" /\ ~HasText(reply[c]))
        => sent[c] = <<>> /\ responses[c] = <<>> /\ pc[c] = "done"

\* C13 as stated: the text of every assistant_input frame sent is a string, and a
\* reply without text sends no frame.
C13_TextIsString ==
    \A c \in Conns :
        /\ \A f \in InputFrames(c) : HasKey(f.o, "text") /\ Lookup(f.o, "text").t = "str"
        /\ AbsentTextFails(c)

\* C13 amended: the text of every assistant_input frame sent is present and is the
\* text of the reply as it came, whatever JSON value it is: a string when the
\* reply's text is a string, a number when it is a number; a reply without text
\* sends no frame.
C13_TextAsReplied ==
    \A c \in Conns :
        /\ \A f \in InputFrames(c) :
              /\ HasKey(f.o, "text")
              /\ HasText(reply[c])
              /\ Lookup(f.o, "text") = TextOf(reply[c])
        /\ AbsentTextFails(c)

\* a reply whose text is the number 42 has been relayed
C13_Witness ==
    /\ InputFrames("c1") = {InputFrame(JNum("42"))}
    /\ Len(sent["c1"]) = 2

\* what ends a loop: the peer's closure, seen by receive_text or by send_text, or a
\* failure of the parse, of the request or of the reply
Closures == {"WebSocketDisconnect"}

Failures == {"JSONDecodeError", "KeyError", "IndexError", "TypeError", "ReadTimeout"}
                \cup NetworkErrors

\* C14: the loop does not end on its own: a cycle whose two frames are sent is
\* followed by the wait for the next frame however many frames have been served,
\* and a loop that has ended has ended on the peer's closure or on an unhandled
\* failure.
C14_LoopGoesOn ==
    /\ [](\A c \in Conns :
            /\ pc[c] = "done" => exc[c] \in Closures \cup Failures
            /\ exc[c] \in Closures => closed[c]
            /\ (nread[c] > 0 /\ Len(outbox[c]) = 2 * nread[c])
                  => pc[c] = "receive" \/ exc[c] \in Closures)
    /\ [][\A c \in Conns :
            /\ (Len(sent[c]) = 1 /\ Len(sent'[c]) = 2)
                  => pc'[c] = "receive" /\ exc'[c] = ""
            /\ (pc[c] # "done" /\ pc'[c] = "done")
                  => exc'[c] \in Closures \cup Failures]_vars

\* every frame the client could send has been served and the handler waits again
C14_Witness ==
    /\ nread["c1"] = MaxFrames
    /\ Len(outbox["c1"]) = 2 * MaxFrames
    /\ pc["c1"] = "receive"
    /\ exc["c1"] = ""

\* the URLs of the requests of connection c in the current cycle
AskedUrls(c) == {asked[c][i].url : i \in 1..Len(asked[c])}

\* C15 as stated: every request of every connection goes to one URL.
C15_OneUrl ==
    \A c, d \in Conns : \A u \in AskedUrls(c) : \A v \in AskedUrls(d) : u = v

\* C15 amended: the URL is resolved once for each connection, when it is accepted:
\* it is the value LLM_URL has then, every request of the connection goes to it,
\* and a later change of LLM_URL does not change it; connections accepted before
\* and after a change of LLM_URL go to different URLs.
C15_UrlPerConnection ==
    /\ [](\A c \in Conns : AskedUrls(c) \subseteq {llm_url[c]})
    /\ [][\A c \in Conns :
            /\ (pc[c] = "idle" /\ pc'[c] # "idle") => llm_url'[c] = environ
            /\ pc[c] # "idle" => llm_url'[c] = llm_url[c]]_vars

\* two connections ask different URLs, and LLM_URL is no longer what c1 asks
C15_Witness ==
    /\ AskedUrls("c1") # {} /\ AskedUrls("c2") # {}
    /\ AskedUrls("c1") # AskedUrls("c2")
    /\ environ \notin AskedUrls("c1")

\* an exception has left the handler of connection c
Ended(c) == exc[c] # ""

\* C16: the end of a loop is final: once an exception has left the handler, the
\* task reads no frame, issues no request and sends no frame, and the frames the
\* client had queued stay unread.
C16_FailStop ==
    /\ [](\A c \in Conns : Ended(c) <=> pc[c] = "done")
    /\ [][\A c \in Conns :
            Ended(c)
                => /\ Ended(c)' /\ pc'[c] = "done" /\ exc'[c] = exc[c]
                   /\ nread'[c] = nread[c] /\ inq'[c] = inq[c] /\ data'[c] = data[c]
                   /\ nreq'[c] = nreq[c] /\ pending'[c] = pending[c]
                   /\ asked'[c] = asked[c]
                   /\ outbox'[c] = outbox[c] /\ sent'[c] = sent[c]
                   /\ responses'[c] = responses[c]]_vars

\* a send has failed between the two frames, with a frame of the client unread
C16_Witness ==
    /\ pc["c1"] = "done" /\ exc["c1"] = "WebSocketDisconnect"
    /\ Len(sent["c1"]) = 1
    /\ inq["c1"] # <<>>

\* frames of a type sent on connection c
Count(c, type) == Cardinality({i \in 1..Len(outbox[c]) : outbox[c][i].type = type})

\* C17: on every connection, assistant_end frames sent <= assistant_input frames
\* sent <= requests issued <= frames read, the inputs exceed the ends by one at
\* most, and every assistant_end follows the assistant_input of its own cycle.
C17_Counts ==
    \A c \in Conns :
        /\ Count(c, "assistant_end") <= Count(c, "assistant_input")
        /\ Count(c, "assistant_input") <= nreq[c]
        /\ nreq[c] <= nread[c]
        /\ Count(c, "assistant_input") - Count(c, "assistant_end") <= 1
        /\ Count(c, "assistant_input") + Count(c, "assistant_end") = Len(outbox[c])
        /\ \A i \in 1..Len(outbox[c]) :
              outbox[c][i].type = "assistant_end"
                  => /\ i > 1
                     /\ outbox[c][i - 1] = [n |-> outbox[c][i].n, type |-> "assistant_input"]

\* the peer closed between the two sends of the second cycle and the send failed
C17_Witness ==
    /\ Count("c1", "assistant_input") = 2
    /\ Count("c1", "assistant_end") = 1
    /\ closed["c1"]
    /\ pc["c1"] = "done" /\ exc["c1"] = "WebSocketDisconnect"

\* connection c is in the middle of a cycle
InCycle(c) == pc[c] \in {"post", "send"}

\* C18: a frame that has been read leads to its two frames having been sent, the
\* handler waiting for the next frame, or to the end of the loop: the handler does
\* not stay in the middle of a cycle.
C18_CycleEnds ==
    \A c \in Conns :
        InCycle(c) ~> ((pc[c] = "receive" /\ Len(sent[c]) = 2) \/ pc[c] = "done")

\* between the two sends of the second cycle
C18_Witness ==
    /\ nread["c1"] = 2
    /\ pc["c1"] = "send"
    /\ Len(sent["c1"]) = 1

====
